---- MODULE Spec2Model ----
(***************************************************************************)
(* File pairing and pipeline orchestration of the racking automation      *)
(* (file_monitor.py).  Two threads call check_for_file_pair on one shared  *)
(* FileMonitorHandler: the watchdog observer thread (on_created/on_moved)  *)
(* and the thread running start_watching, which scans the existing files   *)
(* after the observer was started.  Every detected pair is processed by a  *)
(* daemon thread running _process_pair_async.  The handler holds no lock,  *)
(* so each access of file_cache / processing_lock is a step of its own.    *)
(***************************************************************************)
EXTENDS Integers, Sequences, FiniteSets, TLC

\* ------------------------------------------------------------ bounds
MaxEnv == 1       \* file creations / deletions by the outside world
MaxRuns == 2      \* pipeline threads ever spawned
MaxDrops == 2     \* pairs dropped into the tree in the drop scenario

\* ------------------------------------------------------------ paths
NoPath == [dir |-> "", name |-> "", suffix |-> ""]

Paths ==
  { [dir |-> "in",  name |-> "job17", suffix |-> ".dwg"],
    [dir |-> "in",  name |-> "job17", suffix |-> ".pdf"],
    [dir |-> "old", name |-> "JOB17", suffix |-> ".PDF"],
    [dir |-> "in",  name |-> "notes", suffix |-> ".txt"] }

\* str.lower() on the strings that occur in Paths; the names of the dropped
\* files and of their copies have no upper-case letter
Lower(s) ==
  CASE s = "JOB17" -> "job17"
    [] s = ".PDF"  -> ".pdf"
    [] s = ".DWG"  -> ".dwg"
    [] OTHER       -> s

\* str.lstrip('.') on the suffixes that occur in Paths
LStripDot(s) ==
  CASE s = ".dwg" -> "dwg"
    [] s = ".pdf" -> "pdf"
    [] s = ".txt" -> "txt"
    [] OTHER      -> s

\* a stem that keeps the directory of the file
StemInDir(p) == p.dir \o "/" \o Lower(p.name)

\* file_stem = Path(file_path).stem.lower()
Stem(p) == Lower(p.name)

\* file_ext = Path(file_path).suffix.lower().lstrip('.')
Ext(p) == LStripDot(Lower(p.suffix))

\* the stems of the pairs dropped in the drop scenario
DropStems == {"job17", "job18"}

Stems == { Stem(p) : p \in Paths } \cup DropStems

\* if file_ext not in ['dwg', 'pdf']: return
Relevant(p) == Ext(p) \in {"dwg", "pdf"}

Callers == {"observer", "scan"}

VARIABLES
  disk,             \* the files that exist under the watch folder
  todo,             \* files listed by os.walk and not yet visited by the scan
  queue,            \* events the observer thread has not dispatched yet
  nenv,             \* steps of the outside world so far
  drops,            \* pairs dropped so far, per stem (drop scenario)
  file_cache,       \* FileMonitorHandler.file_cache
  processing_lock,  \* FileMonitorHandler.processing_lock
  call,             \* per calling thread: position and locals of check_for_file_pair
  runs,             \* the pipeline threads, in the order they were started
  driver,           \* OdooAutomation.driver: 0 for None, else the run that created it
  monitor,          \* the FileMonitor: start_watching, stop_watching and their fields
  wrapper,          \* a call of the wrapper that retry_on_failure builds
  request           \* a call of EmailHandler.send_seizmic_data_request

vars == <<disk, todo, queue, nenv, drops, file_cache, processing_lock, call, runs,
          driver, monitor, wrapper, request>>

\* the two calls that are followed on their own, apart from the monitor
apart == <<wrapper, request>>

\* no call of the wrapper is being followed
NoWrapper == [pc |-> "idle"]

\* no call of send_seizmic_data_request is being followed
NoRequest == [pc |-> "idle"]

\* a thread that is not inside check_for_file_pair.  Beside the locals of the code:
\* status, the way the call ended; seen, the stem's entry as line 131 read it;
\* on_disk, whether both files were on disk when the call decided about the pair;
\* start, the number of pipeline threads that existed when the call began
Idle == [pc |-> "idle", file_path |-> NoPath, dwg_file |-> NoPath, pdf_file |-> NoPath,
         status |-> "None", seen |-> << >>, on_disk |-> FALSE, start |-> 0]

\* self.file_cache = {} ; self.processing_lock = set()
HandlerInit ==
  /\ file_cache = << >>
  /\ processing_lock = {}
  /\ call = [t \in Callers |-> Idle]
  /\ runs = << >>

\* the files a run of the program may find under the watch folder when it starts
InitialDisks ==
  SUBSET { p \in Paths : p.dir = "in" /\ Relevant(p) }

\* FileMonitor.__init__ (lines 177-181): observer None, running False.  Beside the
\* fields: root, whether the watch folder exists; pc, the position of the thread
\* running start_watching, and result, what it returned; stop, the position of the
\* main thread, which calls stop_watching; at_stop, the number of pipeline threads
\* that had been started when it did
NewMonitor(root) ==
  [root |-> root, pc |-> "l186", observer |-> "None", running |-> FALSE,
   result |-> "None", stop |-> "idle", at_stop |-> 0]

\* the application has built the FileMonitor and nothing has run yet
Init ==
  /\ monitor \in { NewMonitor(root) : root \in BOOLEAN }
  /\ disk \in (IF monitor.root THEN InitialDisks ELSE {{}})
  /\ todo = {}
  /\ queue = << >>
  /\ nenv = 0
  /\ drops = [s \in Stems |-> 0]
  /\ driver = 0
  /\ wrapper = NoWrapper
  /\ request = NoRequest
  /\ HandlerInit

\* ------------------------------------------------------ start_watching
\* a start_watching that does not look for the watch folder
NeverMissing == FALSE

\* line 188: if not os.path.exists(watch_folder)
RootMissing == ~monitor.root

\* lines 186-205: without the watch folder, return False; else create the observer
\* and the handler, start the observer and set running
StartWatching ==
  /\ monitor.pc = "l186"
  /\ monitor' = IF RootMissing
                  THEN [monitor EXCEPT !.pc = "returned", !.result = "False"]
                  ELSE [monitor EXCEPT !.pc = "l208", !.observer = "alive",
                                       !.running = TRUE]
  /\ UNCHANGED <<apart, disk, todo, queue, nenv, drops, file_cache, processing_lock, call,
                 runs, driver>>

\* the thread of start_watching once the listing holds the files in left: it is
\* in the scan, or with nothing left in the sleep loop of lines 211-213
Scanning(left) == [monitor EXCEPT !.pc = IF left = {} THEN "loop" ELSE "scan"]

\* lines 208, 241: _scan_existing_files lists the files under the watch folder
StartScan ==
  /\ monitor.pc = "l208"
  /\ todo' = disk
  /\ monitor' = Scanning(disk)
  /\ UNCHANGED <<apart, disk, queue, nenv, drops, file_cache, processing_lock, call, runs,
                 driver>>

\* ------------------------------------------------------- stop_watching
\* lines 226-227, and 230 when there is no live observer: observer.stop() makes the
\* observer thread take no further event from its queue
StopWatching ==
  /\ monitor.stop = "idle"
  /\ monitor' = IF monitor.observer = "alive"
                  THEN [monitor EXCEPT !.observer = "stopped", !.stop = "l228",
                                       !.at_stop = Len(runs)]
                  ELSE [monitor EXCEPT !.running = FALSE, !.stop = "returned",
                                       !.at_stop = Len(runs)]
  /\ UNCHANGED <<apart, disk, todo, queue, nenv, drops, file_cache, processing_lock, call,
                 runs, driver>>

\* lines 228-231: observer.join() returns when the observer thread has ended, after
\* the handler call it was in; then running is set to False
Joined ==
  /\ monitor.stop = "l228"
  /\ call["observer"].pc = "idle"
  /\ monitor' = [monitor EXCEPT !.running = FALSE, !.stop = "returned"]
  /\ UNCHANGED <<apart, disk, todo, queue, nenv, drops, file_cache, processing_lock, call,
                 runs, driver>>

\* lines 211-217: the sleep loop of start_watching ends when running is False
LoopExit ==
  /\ monitor.pc = "loop"
  /\ ~monitor.running
  /\ monitor' = [monitor EXCEPT !.pc = "returned", !.result = "True"]
  /\ UNCHANGED <<apart, disk, todo, queue, nenv, drops, file_cache, processing_lock, call,
                 runs, driver>>

\* main.py lines 83-91 and 114-115: once stop_monitoring is over, run_console_mode
\* and main return and the interpreter exits.  The pipeline threads are daemon
\* threads (line 146), like the thread of start_watching (main.py line 43): they
\* end with the interpreter, wherever they are
Exit ==
  /\ monitor.stop = "returned"
  /\ monitor' = [monitor EXCEPT !.stop = "exited"]
  /\ UNCHANGED <<apart, disk, todo, queue, nenv, drops, file_cache, processing_lock, call,
                 runs, driver>>

\* the process is alive
Alive == monitor.stop # "exited"

\* ------------------------------------------------ check_for_file_pair
SetCall(t, r) == call' = [call EXCEPT ![t] = r]

Goto(t, label) == SetCall(t, [call[t] EXCEPT !.pc = label])

\* the call is over; status names the way it ended
Finish(t, st) == SetCall(t, [call[t] EXCEPT !.pc = "ret", !.status = st])

FileStem(t) == Stem(call[t].file_path)

FileExt(t) == Ext(call[t].file_path)

\* a filter that lets every extension through
EnterAny(t, p) ==
  SetCall(t, [Idle EXCEPT !.pc = "l121", !.file_path = p, !.start = Len(runs)])

\* lines 112-118: stem and extension of the path, and the extension filter
Enter(t, p) ==
  IF Relevant(p)
    THEN SetCall(t, [Idle EXCEPT !.pc = "l121", !.file_path = p, !.start = Len(runs)])
    ELSE SetCall(t, [Idle EXCEPT !.pc = "ret", !.file_path = p, !.status = "Ignored"])

\* on_created / on_moved, run by the observer thread for the next queued event
Dispatch ==
  /\ monitor.observer = "alive"
  /\ call["observer"].pc = "idle"
  /\ queue # << >>
  /\ queue' = Tail(queue)
  /\ IF Head(queue).is_directory
       THEN UNCHANGED call
       ELSE Enter("observer", Head(queue).path)
  /\ UNCHANGED <<apart, disk, todo, nenv, drops, file_cache, processing_lock, runs, driver, monitor>>

\* _scan_existing_files: the next file of the os.walk listing
ScanNext ==
  /\ monitor.pc = "scan"
  /\ call["scan"].pc = "idle"
  /\ \E p \in todo :
       /\ todo' = todo \ {p}
       /\ Enter("scan", p)
  /\ UNCHANGED <<apart, disk, queue, nenv, drops, file_cache, processing_lock, runs, driver, monitor>>

\* line 121: if file_stem in self.processing_lock: return
L121(t) ==
  /\ call[t].pc = "l121"
  /\ IF FileStem(t) \in processing_lock
       THEN Finish(t, "AlreadyClaimed")
       ELSE Goto(t, "l125")
  /\ UNCHANGED <<apart, disk, todo, queue, nenv, drops, file_cache, processing_lock, runs, driver, monitor>>

\* line 125: if file_stem not in self.file_cache
L125(t) ==
  /\ call[t].pc = "l125"
  /\ IF FileStem(t) \notin DOMAIN file_cache
       THEN Goto(t, "l126")
       ELSE Goto(t, "l128")
  /\ UNCHANGED <<apart, disk, todo, queue, nenv, drops, file_cache, processing_lock, runs, driver, monitor>>

\* line 126: self.file_cache[file_stem] = {}
L126(t) ==
  /\ call[t].pc = "l126"
  /\ file_cache' = (FileStem(t) :> << >>) @@ file_cache
  /\ Goto(t, "l128")
  /\ UNCHANGED <<apart, disk, todo, queue, nenv, drops, processing_lock, runs, driver, monitor>>

\* the entry after self.file_cache[file_stem][file_ext] = str(file_path)
Upsert(entry, ext, path) == (ext :> path) @@ entry

\* line 128; a KeyError is caught at line 153
L128(t) ==
  /\ call[t].pc = "l128"
  /\ IF FileStem(t) \in DOMAIN file_cache
       THEN /\ file_cache' = [file_cache EXCEPT
                 ![FileStem(t)] = Upsert(@, FileExt(t), call[t].file_path)]
            /\ Goto(t, "l131")
       ELSE /\ Finish(t, "Error")
            /\ UNCHANGED file_cache
  /\ UNCHANGED <<apart, disk, todo, queue, nenv, drops, processing_lock, runs, driver, monitor>>

\* line 131: 'dwg' in entry and 'pdf' in entry
HasBoth(entry) == "dwg" \in DOMAIN entry /\ "pdf" \in DOMAIN entry

\* line 131; a KeyError is caught at line 153
L131(t) ==
  /\ call[t].pc = "l131"
  /\ IF FileStem(t) \in DOMAIN file_cache
       THEN LET entry == file_cache[FileStem(t)] IN
            IF HasBoth(entry)
              THEN SetCall(t, [call[t] EXCEPT !.pc = "l132", !.seen = entry])
              ELSE SetCall(t, [call[t] EXCEPT !.pc = "ret", !.seen = entry,
                                             !.status = "Partial"])
       ELSE Finish(t, "Error")
  /\ UNCHANGED <<apart, disk, todo, queue, nenv, drops, file_cache, processing_lock, runs, driver, monitor>>

\* line 132: self.processing_lock.add(file_stem)
L132(t) ==
  /\ call[t].pc = "l132"
  /\ processing_lock' = processing_lock \cup {FileStem(t)}
  /\ Goto(t, "l135")
  /\ UNCHANGED <<apart, disk, todo, queue, nenv, drops, file_cache, runs, driver, monitor>>

\* line 139: os.path.exists(dwg_file) and os.path.exists(pdf_file)
BothExist(dwg, pdf) == dwg \in disk /\ pdf \in disk

\* self.file_cache[file_stem][ext] can be read
Recorded(s, ext) == s \in DOMAIN file_cache /\ ext \in DOMAIN file_cache[s]

\* line 135: dwg_file = self.file_cache[file_stem]['dwg']; a KeyError goes to line 149
L135(t) ==
  /\ call[t].pc = "l135"
  /\ IF Recorded(FileStem(t), "dwg")
       THEN SetCall(t, [call[t] EXCEPT !.pc = "l136",
                                       !.dwg_file = file_cache[FileStem(t)]["dwg"]])
       ELSE SetCall(t, [call[t] EXCEPT !.pc = "l151",
                          !.on_disk = BothExist(call[t].seen["dwg"], call[t].seen["pdf"])])
  /\ UNCHANGED <<apart, disk, todo, queue, nenv, drops, file_cache, processing_lock, runs, driver, monitor>>

\* line 136: pdf_file = self.file_cache[file_stem]['pdf']; a KeyError goes to line 149
L136(t) ==
  /\ call[t].pc = "l136"
  /\ IF Recorded(FileStem(t), "pdf")
       THEN SetCall(t, [call[t] EXCEPT !.pc = "l139",
                                       !.pdf_file = file_cache[FileStem(t)]["pdf"]])
       ELSE SetCall(t, [call[t] EXCEPT !.pc = "l151",
                          !.on_disk = BothExist(call[t].seen["dwg"], call[t].seen["pdf"])])
  /\ UNCHANGED <<apart, disk, todo, queue, nenv, drops, file_cache, processing_lock, runs, driver, monitor>>

\* the thread object of lines 142-147, before its first statement has run
NewRun(t) ==
  [stem |-> FileStem(t), dwg_file |-> call[t].dwg_file, pdf_file |-> call[t].pdf_file,
   pc |-> "backup", pdf_backup |-> FALSE, dwg_backup |-> FALSE, metadata |-> {"None"},
   crm_attempts |-> 0, served |-> FALSE, created |-> "None",
   opportunity_number |-> "None", folder_attempts |-> 0, folder_path |-> "None",
   subfolders |-> {},
   pdf_success |-> FALSE, dwg_success |-> FALSE, moved |-> FALSE, email |-> "None",
   result |-> "running", calls |-> << >>,
   dup |-> \E j \in (call[t].start + 1)..Len(runs) : runs[j].stem = FileStem(t)]

\* lines 139-147: the existence check and the start of the pipeline thread
L139(t) ==
  /\ call[t].pc = "l139"
  /\ IF BothExist(call[t].dwg_file, call[t].pdf_file)
       THEN /\ Len(runs) < MaxRuns
            /\ runs' = Append(runs, NewRun(t))
            /\ SetCall(t, [call[t] EXCEPT !.pc = "ret", !.status = "Completed",
                                          !.on_disk = TRUE])
       ELSE /\ Finish(t, "Stale")
            /\ UNCHANGED runs
  /\ UNCHANGED <<apart, disk, todo, queue, nenv, drops, file_cache, processing_lock, driver, monitor>>

\* a discard that leaves the stem in the set
KeepClaim(lock, s) == lock

\* set.discard
Discard(lock, s) == lock \ {s}

\* an except branch that logs and leaves the claim
L151LogsOnly(t) ==
  /\ call[t].pc = "l151"
  /\ Finish(t, "Error")
  /\ UNCHANGED <<apart, disk, todo, queue, nenv, drops, file_cache, processing_lock, runs,
                 driver, monitor>>

\* lines 149-151: self.processing_lock.discard(file_stem)
L151(t) ==
  /\ call[t].pc = "l151"
  /\ processing_lock' = Discard(processing_lock, FileStem(t))
  /\ Finish(t, "Error")
  /\ UNCHANGED <<apart, disk, todo, queue, nenv, drops, file_cache, runs, driver, monitor>>

\* a call that joins the pipeline threads before it returns
ReturnAfterJoin(t) ==
  /\ call[t].pc = "ret"
  /\ \A i \in DOMAIN runs : runs[i].pc = "done"
  /\ SetCall(t, Idle)
  /\ monitor' = IF t = "scan" THEN Scanning(todo) ELSE monitor
  /\ UNCHANGED <<apart, disk, todo, queue, nenv, drops, file_cache, processing_lock, runs,
                 driver>>

\* check_for_file_pair returns to on_created / on_moved / _scan_existing_files; the
\* scan goes on with the next listed file, or is over after the last one
Return(t) ==
  /\ call[t].pc = "ret"
  /\ SetCall(t, Idle)
  /\ monitor' = IF t = "scan" THEN Scanning(todo) ELSE monitor
  /\ UNCHANGED <<apart, disk, todo, queue, nenv, drops, file_cache, processing_lock, runs,
                 driver>>

CheckForFilePair(t) ==
  \/ L121(t) \/ L125(t) \/ L126(t) \/ L128(t) \/ L131(t) \/ L132(t)
  \/ L135(t) \/ L136(t) \/ L139(t) \/ L151(t) \/ Return(t)

\* ------------------------------------------- the pipeline thread
\* the collaborator calls of process_file_pair, in the order of its text
StageOrder == <<"backup_pdf", "backup_dwg", "extract", "crm", "folder", "move", "email">>

\* the keys _extract_fields can put into the metadata
Fields == {"customer", "address", "project_manager", "drafter", "project_name"}

\* what extract_title_block can return for a readable pdf: None, or the dict of the
\* fields its patterns matched (the result of _validate_metadata is only logged)
MetaChoices ==
  { {"None"}, {}, {"address"}, {"customer", "project_manager"}, Fields }

\* Python's "not metadata": None or the empty dict
Falsy(m) == m = {"None"} \/ m = {}

\* @retry_on_failure(max_retries=3)
MaxRetries == 3

\* the wrapper of retry_on_failure (utils.py lines 88-97) after the call number
\* attempt (from 0) ended with outcome: it returns the value, or after an exception
\* calls again, or after the last attempt raises the exception
RetryOnFailure(attempt, outcome) ==
  IF outcome # "raise" THEN "return"
  ELSE IF attempt < MaxRetries - 1 THEN "retry"
  ELSE "raise"

\* create_opportunity and create_folder_structure catch every exception of their
\* body and return None (odoo_automation.py 318-320, sharepoint_client.py 189-191)
Swallow(outcome) == IF outcome = "raise" THEN "None" ELSE outcome

SetRun(i, r) == runs' = [runs EXCEPT ![i] = r]

\* the collaborator call c of run r has returned
Called(r, c) == [r EXCEPT !.calls = Append(@, c)]

\* a failed run that ends without going through the finally block
FailedWithoutCleanup(r) == [r EXCEPT !.pc = "done", !.result = "False"]

\* process_file_pair returns False (lines 43, 51, 61, 71)
Failed(r) == [r EXCEPT !.pc = "l170", !.result = "False"]

\* a pipeline that gives up when a backup could not be made
AfterBackupOrAbort(r, pdf_backup, dwg_backup) ==
  IF pdf_backup /\ dwg_backup
    THEN [r EXCEPT !.pdf_backup = pdf_backup, !.dwg_backup = dwg_backup, !.pc = "extract"]
    ELSE Failed([r EXCEPT !.pdf_backup = pdf_backup, !.dwg_backup = dwg_backup])

\* after lines 36-37: pdf_backup and dwg_backup are assigned and never read
AfterBackup(r, pdf_backup, dwg_backup) ==
  [r EXCEPT !.pdf_backup = pdf_backup, !.dwg_backup = dwg_backup, !.pc = "extract"]

\* lines 36-37: create_backup of the pdf, then of the dwg.  create_backup returns
\* None (here FALSE) when the file is not on disk or the copy fails, and catches
\* every exception (utils.py lines 52-54, 76-79).  The copies are files of another
\* stem, <stem>_<timestamp>; BackupInTree follows them
Backup(i) ==
  /\ runs[i].pc = "backup"
  /\ \E pdf_backup \in BOOLEAN, dwg_backup \in BOOLEAN :
       /\ pdf_backup => runs[i].pdf_file \in disk
       /\ dwg_backup => runs[i].dwg_file \in disk
       /\ SetRun(i, AfterBackup(Called(Called(runs[i], "backup_pdf"), "backup_dwg"),
                                pdf_backup, dwg_backup))
  /\ UNCHANGED <<apart, disk, todo, queue, nenv, drops, file_cache, processing_lock, call,
                 driver, monitor>>

\* a pipeline that creates the folders before the CRM record
AfterExtractFolderFirst(r, m) ==
  IF Falsy(m)
    THEN Failed([r EXCEPT !.metadata = m])
    ELSE [r EXCEPT !.metadata = m, !.pc = "folder"]

\* after lines 40-43, given what extract_title_block returned
AfterExtract(r, m) ==
  IF Falsy(m)
    THEN Failed([r EXCEPT !.metadata = m])
    ELSE [r EXCEPT !.metadata = m, !.pc = "crm"]

\* the two backup results are dead once line 40 runs
Forget(r) == [r EXCEPT !.pdf_backup = FALSE, !.dwg_backup = FALSE]

\* the created or moved event of watchdog for the file p
Event(p) == [is_directory |-> FALSE, path |-> p]

\* time.strftime("%Y%m%d_%H%M%S") at the first copy, and one second later
Timestamps == <<"20250808_214842", "20250808_214843">>

\* utils.py lines 58-68: the copy of p goes into the directory backups beneath the
\* directory of p and is named <name>_<timestamp><ext>
BackupPath(p, timestamp) ==
  [dir |-> p.dir \o "/backups", name |-> p.name \o "_" \o timestamp,
   suffix |-> p.suffix]

\* utils.py line 61: os.makedirs makes the directory when it is not there yet
\* (it is taken to be there when a copy is in it)
BackupDirEvents(p) ==
  IF \E q \in disk : q.dir = p.dir \o "/backups"
    THEN << >>
    ELSE <<[is_directory |-> TRUE,
            path |-> [dir |-> p.dir, name |-> "backups", suffix |-> ""]]>>

\* lines 36-37 as in Backup, with what create_backup leaves behind: the copies
\* are files of the watch folder, which is watched recursively (lines 198-202),
\* so the observer queues a created event for the new directory and for each copy.
\* The two copies carry the same timestamp unless a new second has begun between
\* them
BackupInTree(i) ==
  /\ runs[i].pc = "backup"
  /\ \E pdf_backup \in BOOLEAN, dwg_backup \in BOOLEAN, k \in DOMAIN Timestamps :
       LET pdf_copy == BackupPath(runs[i].pdf_file, Timestamps[1])
           dwg_copy == BackupPath(runs[i].dwg_file, Timestamps[k])
           copies == (IF pdf_backup THEN <<pdf_copy>> ELSE << >>)
                       \o (IF dwg_backup THEN <<dwg_copy>> ELSE << >>)
           events == (IF copies = << >> THEN << >>
                                        ELSE BackupDirEvents(runs[i].pdf_file))
                       \o [n \in DOMAIN copies |-> Event(copies[n])]
       IN  /\ pdf_backup => runs[i].pdf_file \in disk
           /\ dwg_backup => runs[i].dwg_file \in disk
           /\ k = 1 \/ dwg_backup
           /\ disk' = disk \cup { copies[n] : n \in DOMAIN copies }
           /\ queue' = IF monitor.observer = "alive" THEN queue \o events ELSE queue
           /\ SetRun(i, AfterBackup(Called(Called(runs[i], "backup_pdf"), "backup_dwg"),
                                    pdf_backup, dwg_backup))
  /\ UNCHANGED <<apart, todo, nenv, drops, file_cache, processing_lock, call, driver, monitor>>

\* lines 40-43: extract_title_block returns None when the pdf is not on disk
Extract(i) ==
  /\ runs[i].pc = "extract"
  /\ \E m \in MetaChoices :
       /\ runs[i].pdf_file \notin disk => m = {"None"}
       /\ SetRun(i, AfterExtract(Called(Forget(runs[i]), "extract"), m))
  /\ UNCHANGED <<apart, disk, todo, queue, nenv, drops, file_cache, processing_lock, call,
                 driver, monitor>>

\* a pipeline that goes on without an opportunity number
AfterCrmGoesOn(r, opp) == [r EXCEPT !.opportunity_number = opp, !.pc = "folder"]

\* after lines 48-51, given what create_opportunity returned
AfterCrm(r, opp) ==
  IF opp = "None"
    THEN Failed([r EXCEPT !.opportunity_number = opp])
    ELSE [r EXCEPT !.opportunity_number = opp, !.pc = "folder"]

\* the wrapped create_opportunity has ended with outcome (a value, "None" or
\* "raise") in its call number r.crm_attempts - 1
CrmEnds(r, outcome) ==
  LET then == RetryOnFailure(r.crm_attempts - 1, Swallow(outcome))
  IN  CASE then = "return" -> AfterCrm(Called(r, "crm"), Swallow(outcome))
        [] then = "retry"  -> [r EXCEPT !.pc = "crm"]
        [] OTHER           -> Failed(r)

\* line 48, odoo_automation.py lines 295-296 and 28-47: _setup_driver stores a new
\* browser in self.driver of the one OdooAutomation all pipeline threads share, or
\* fails, and then create_opportunity returns None before its inner try
SetupDriver(i) ==
  /\ runs[i].pc = "crm"
  /\ LET r == [runs[i] EXCEPT !.crm_attempts = @ + 1]
     IN  \E started \in BOOLEAN :
           IF started
             THEN /\ driver' = i
                  /\ SetRun(i, [r EXCEPT !.pc = "l300"])
             ELSE /\ UNCHANGED driver
                  /\ SetRun(i, CrmEnds(r, "None"))
  /\ UNCHANGED <<apart, disk, todo, queue, nenv, drops, file_cache, processing_lock, call,
                 monitor>>

\* odoo_automation.py lines 300-310: login, navigation and creation go through
\* self.driver, whichever browser that is now; with self.driver None they fail.
\* served: whether Odoo answers the requests of this run
UseDriver(i) ==
  /\ runs[i].pc = "l300"
  /\ \E served \in BOOLEAN :
       SetRun(i, [runs[i] EXCEPT !.pc = "l314", !.served = served,
                    !.created = IF served /\ driver # 0 THEN "OPP12345" ELSE "None"])
  /\ UNCHANGED <<apart, disk, todo, queue, nenv, drops, file_cache, processing_lock, call,
                 driver, monitor>>

\* odoo_automation.py lines 312-316: the finally block quits whatever browser
\* self.driver holds and sets self.driver to None; then the function returns
QuitDriver(i) ==
  /\ runs[i].pc = "l314"
  /\ driver' = 0
  /\ SetRun(i, CrmEnds(runs[i], runs[i].created))
  /\ UNCHANGED <<apart, disk, todo, queue, nenv, drops, file_cache, processing_lock, call,
                 monitor>>

\* lines 48-51 with create_opportunity
Crm(i) == SetupDriver(i) \/ UseDriver(i) \/ QuitDriver(i)

\* after lines 56-61, given what create_folder_structure returned
AfterFolder(r, f) ==
  IF f = "None"
    THEN Failed([r EXCEPT !.folder_path = f])
    ELSE [r EXCEPT !.folder_path = f, !.pc = "move"]

\* the wrapped create_folder_structure has ended with outcome
FolderEnds(r, outcome) ==
  LET then == RetryOnFailure(r.folder_attempts - 1, Swallow(outcome))
  IN  CASE then = "return" -> AfterFolder(Called(r, "folder"), Swallow(outcome))
        [] then = "retry"  -> r
        [] OTHER           -> Failed(r)

\* sharepoint_client.py lines 25-34: self.subfolders
Subfolders ==
  {"DWG", "PDF", "Calculations", "Vendors", "Purchase Order", "Photos", "PPT",
   "Proposals"}

\* sharepoint_client.py lines 177-180: the subfolders made beneath the project
\* folder when _create_folder returned None for those in lost; the failure is
\* logged as a warning and the loop goes on
Provisioned(lost) == Subfolders \ lost

\* lines 56-61: a Graph request for a part of the project path fails (None), the
\* folders are made, or the body of create_folder_structure raises.  With the
\* project path made, the request for a subfolder can fail as well
Folder(i) ==
  /\ runs[i].pc = "folder"
  /\ \E outcome \in {"None", "/Projects - Documents/opp", "raise"},
        lost \in {{}, {"PDF"}} :
       /\ outcome \in {"None", "raise"} => lost = {}
       /\ SetRun(i, FolderEnds([runs[i] EXCEPT
                      !.folder_attempts = @ + 1,
                      !.subfolders = IF outcome \in {"None", "raise"}
                                       THEN {} ELSE Provisioned(lost)],
                    outcome))
  /\ UNCHANGED <<apart, disk, todo, queue, nenv, drops, file_cache, processing_lock, call,
                 driver, monitor>>

\* a transfer stage that is content with one of the two uploads
AfterMoveEither(r, pdf_success, dwg_success) ==
  IF pdf_success \/ dwg_success
    THEN [r EXCEPT !.pdf_success = pdf_success, !.dwg_success = dwg_success,
                   !.pc = "remove", !.moved = TRUE]
    ELSE Failed([r EXCEPT !.pdf_success = pdf_success, !.dwg_success = dwg_success])

\* sharepoint_client.py lines 253-264 and lines 66-71: with both uploads done the
\* local files are removed and the stage succeeds, else it fails
AfterMove(r, pdf_success, dwg_success) ==
  IF pdf_success /\ dwg_success
    THEN [r EXCEPT !.pdf_success = pdf_success, !.dwg_success = dwg_success,
                   !.pc = "remove", !.moved = TRUE]
    ELSE Failed([r EXCEPT !.pdf_success = pdf_success, !.dwg_success = dwg_success])

\* what became of the subfolders is of no use once the uploads of lines 238-250
\* have named their targets
Uploaded(r) == [r EXCEPT !.subfolders = {}]

\* move_files_to_sharepoint up to line 253: the token, and the two uploads, each of
\* which reads its local file
Move(i) ==
  /\ runs[i].pc = "move"
  /\ \E token \in BOOLEAN, pdf_sent \in BOOLEAN, dwg_sent \in BOOLEAN :
       LET pdf_success == token /\ pdf_sent /\ runs[i].pdf_file \in disk
           dwg_success == token /\ dwg_sent /\ runs[i].dwg_file \in disk
       IN  SetRun(i, AfterMove(Called(Uploaded(runs[i]), "move"),
                               pdf_success, dwg_success))
  /\ UNCHANGED <<apart, disk, todo, queue, nenv, drops, file_cache, processing_lock, call,
                 driver, monitor>>

\* lines 254-261: os.remove(pdf_file); os.remove(dwg_file), an error only logged
Remove(i) ==
  /\ runs[i].pc = "remove"
  /\ disk' = IF runs[i].pdf_file \in disk
               THEN disk \ {runs[i].pdf_file, runs[i].dwg_file}
               ELSE disk
  /\ SetRun(i, [runs[i] EXCEPT !.pc = "email"])
  /\ UNCHANGED <<apart, todo, queue, nenv, drops, file_cache, processing_lock, call,
                 driver, monitor>>

\* a pipeline that fails when the notification could not be sent
AfterEmailOrFail(r, sent) ==
  IF sent
    THEN [r EXCEPT !.email = "True", !.pc = "l170", !.result = "True"]
    ELSE Failed([r EXCEPT !.email = "False"])

\* lines 74-77: the result of send_seizmic_data_request is not used
AfterEmail(r, sent) ==
  [r EXCEPT !.email = IF sent THEN "True" ELSE "False", !.pc = "l170",
            !.result = "True"]

\* email_handler.py lines 43-78: False without an address for the project manager
\* (lines 49-57), False when sending fails, and every exception is caught
Email(i) ==
  /\ runs[i].pc = "email"
  /\ \E sent \in BOOLEAN :
       /\ sent => "project_manager" \in runs[i].metadata
       /\ SetRun(i, AfterEmail(Called(runs[i], "email"), sent))
  /\ UNCHANGED <<apart, disk, todo, queue, nenv, drops, file_cache, processing_lock, call,
                 driver, monitor>>

\* the thread once process_file_pair has returned and its result was logged (lines
\* 159-166): the locals of process_file_pair are gone, stem and result stay
Returned(r, label) ==
  [stem |-> r.stem, dwg_file |-> NoPath, pdf_file |-> NoPath, pc |-> label,
   pdf_backup |-> FALSE, dwg_backup |-> FALSE, metadata |-> {"None"},
   crm_attempts |-> 0, served |-> FALSE, created |-> "None",
   opportunity_number |-> "None", folder_attempts |-> 0, folder_path |-> "None",
   subfolders |-> {},
   pdf_success |-> FALSE, dwg_success |-> FALSE, moved |-> FALSE, email |-> "None",
   result |-> r.result, calls |-> << >>, dup |-> r.dup]

\* line 170: self.processing_lock.discard(file_stem)
L170(i) ==
  /\ runs[i].pc = "l170"
  /\ processing_lock' = Discard(processing_lock, runs[i].stem)
  /\ SetRun(i, Returned(runs[i], "l171"))
  /\ UNCHANGED <<apart, disk, todo, queue, nenv, drops, file_cache, call, driver, monitor>>

\* line 171: if file_stem in self.file_cache
L171(i) ==
  /\ runs[i].pc = "l171"
  /\ SetRun(i, IF runs[i].stem \in DOMAIN file_cache
                 THEN [runs[i] EXCEPT !.pc = "l172"]
                 ELSE [runs[i] EXCEPT !.pc = "done"])
  /\ UNCHANGED <<apart, disk, todo, queue, nenv, drops, file_cache, processing_lock, call, driver, monitor>>

\* the cache after del self.file_cache[file_stem]
Without(cache, s) == [x \in DOMAIN cache \ {s} |-> cache[x]]

\* line 172: del self.file_cache[file_stem]; a KeyError ends the thread as well
L172(i) ==
  /\ runs[i].pc = "l172"
  /\ file_cache' = Without(file_cache, runs[i].stem)
  /\ SetRun(i, [runs[i] EXCEPT !.pc = "done"])
  /\ UNCHANGED <<apart, disk, todo, queue, nenv, drops, processing_lock, call, driver, monitor>>

\* process_file_pair (lines 30-81).  Each collaborator catches its own exceptions,
\* so the except branch of lines 79-81 has nothing to catch
ProcessFilePair(i) ==
  \/ Backup(i) \/ Extract(i) \/ Crm(i) \/ Folder(i) \/ Move(i) \/ Remove(i)
  \/ Email(i)

\* process_file_pair from line 40 on
AfterStage1(i) ==
  Extract(i) \/ Crm(i) \/ Folder(i) \/ Move(i) \/ Remove(i) \/ Email(i)

\* _process_pair_async (lines 156-172)
ProcessPairAsync(i) == ProcessFilePair(i) \/ L170(i) \/ L171(i) \/ L172(i)

\* ------------------------------------------------- the outside world
\* start_watching has begun; what happened to the folder before is in InitialDisks
Started == monitor.pc # "l186"

\* a file is created at p, or moved or saved onto p; a running observer queues the
\* created or moved event, which on_created / on_moved hand to check_for_file_pair
Arrive(p) ==
  /\ Started
  /\ nenv < MaxEnv
  /\ disk' = disk \cup {p}
  /\ queue' = IF monitor.observer = "alive" THEN Append(queue, Event(p)) ELSE queue
  /\ nenv' = nenv + 1
  /\ UNCHANGED <<apart, todo, drops, file_cache, processing_lock, call, runs, driver, monitor>>

\* a directory under the watch folder, as the events of watchdog name it
DirEvent == [is_directory |-> TRUE,
             path |-> [dir |-> "in", name |-> "backups", suffix |-> ""]]

\* a directory is created under the watch folder; a running observer queues the
\* created event with is_directory set
MakeDir ==
  /\ Started
  /\ nenv < MaxEnv
  /\ queue' = IF monitor.observer = "alive" THEN Append(queue, DirEvent) ELSE queue
  /\ nenv' = nenv + 1
  /\ UNCHANGED <<apart, disk, todo, drops, file_cache, processing_lock, call, runs, driver, monitor>>

\* a file disappears; the handler defines no on_deleted
DeleteFile(p) ==
  /\ Started
  /\ nenv < MaxEnv
  /\ p \in disk
  /\ disk' = disk \ {p}
  /\ nenv' = nenv + 1
  /\ UNCHANGED <<apart, todo, queue, drops, file_cache, processing_lock, call, runs, driver, monitor>>

\* ------------------------------------------------------- the claims
\* the stages of process_file_pair
StagePcs == {"backup", "extract", "crm", "l300", "l314", "folder", "move", "remove",
             "email"}

\* thread i is executing process_file_pair
InProcessFilePair(i) == runs[i].pc \in StagePcs

\* C1: at no time are two pipeline threads executing process_file_pair for the
\* same stem.
C1_OnePipelinePerStem ==
  \A i, j \in DOMAIN runs :
    (i # j /\ InProcessFilePair(i) /\ InProcessFilePair(j))
      => runs[i].stem # runs[j].stem

\* C2: of the notifications that find the same stem's pair complete while they
\* are handled at the same time, exactly one starts a pipeline: no call starts a
\* pipeline for a stem for which another one was started while the call ran.
C2_OneRunForDuplicates ==
  \A i \in DOMAIN runs : ~runs[i].dup

\* the call of thread t is over and had found its stem unclaimed at line 121
PastGate(t) ==
  /\ call[t].pc = "ret"
  /\ call[t].status \in {"Partial", "Stale", "Completed", "Error"}

\* C3: a call on an unclaimed stem ends Completed (a pipeline is started) if and
\* only if both extensions were recorded after its upsert and both files were on
\* disk when it decided.
C3_CompletedIffBothRecordedAndOnDisk ==
  \A t \in Callers :
    PastGate(t) =>
      (call[t].status = "Completed" <=> (HasBoth(call[t].seen) /\ call[t].on_disk))

\* C4: a call that found both extensions recorded and failed the existence check
\* does not leave its stem in processing_lock.
C4_StaleLeavesStemUnclaimed ==
  \A t \in Callers :
    (call[t].pc = "ret" /\ call[t].status = "Stale")
      => FileStem(t) \notin processing_lock

\* C5: after the dwg event of a stem whose pdf was observed and has since been
\* deleted, no pipeline was started and the stem's entry records dwg only.
C5_EntryKeepsOnlyDwg ==
  \A t \in Callers :
    ( /\ call[t].pc = "ret"
      /\ FileExt(t) = "dwg"
      /\ "pdf" \in DOMAIN call[t].seen
      /\ call[t].seen["pdf"] \notin disk )
      => /\ call[t].status # "Completed"
         /\ FileStem(t) \in DOMAIN file_cache
         /\ DOMAIN file_cache[FileStem(t)] = {"dwg"}

\* C6: whatever the outcome of process_file_pair (True, False, an exception), the
\* thread goes on to line 170, line 170 leaves the stem out of processing_lock,
\* and the thread ends with the stem's entry out of file_cache.
C6_CleanupOnEveryOutcome ==
  [][\A i \in DOMAIN runs :
       /\ (InProcessFilePair(i) /\ runs'[i].pc \notin StagePcs)
            => runs'[i].pc = "l170"
       /\ (runs[i].pc = "l170" /\ runs'[i].pc # "l170")
            => (runs'[i].pc = "l171" /\ runs[i].stem \notin processing_lock')
       /\ (runs[i].pc # "done" /\ runs'[i].pc = "done")
            => (runs[i].pc \in {"l171", "l172"} /\ runs[i].stem \notin DOMAIN file_cache')
    ]_vars

\* a pipeline that failed has ended, and its stem is neither claimed nor cached
C6_FailedRunCleared ==
  \E i \in DOMAIN runs :
    /\ runs[i].pc = "done"
    /\ runs[i].result = "False"
    /\ runs[i].stem \notin processing_lock
    /\ runs[i].stem \notin DOMAIN file_cache

\* the pipeline threads started so far for stem s
RunsOf(s) == { i \in DOMAIN runs : runs[i].stem = s }

\* every event for stem s has been handled
Handled(s) ==
  /\ \A k \in DOMAIN queue : Stem(queue[k].path) # s
  /\ call["observer"].pc = "idle"

\* C7: every pair of events for a stem that arrives after the stem's earlier
\* pipelines have ended starts exactly one pipeline: never more pipelines than
\* pairs, and as many once both events have been handled.
C7_OneRunPerFreshPair ==
  \A s \in Stems :
    /\ Cardinality(RunsOf(s)) <= drops[s]
    /\ Handled(s) => Cardinality(RunsOf(s)) = drops[s]

\* a second pair has arrived after the first pipeline ended, and was handled
C7_SecondPairHandled ==
  \E s \in Stems :
    /\ drops[s] = 2
    /\ Handled(s)
    /\ Cardinality(RunsOf(s)) = 2

\* sequence a is a prefix of sequence b
IsPrefix(a, b) ==
  /\ Len(a) <= Len(b)
  /\ \A k \in 1..Len(a) : a[k] = b[k]

\* C8: the collaborator calls of one run are made in the order backup, extract,
\* crm, folder, move, email: the calls made so far are a prefix of that order.
C8_StagesInOrder ==
  \A i \in DOMAIN runs : IsPrefix(runs[i].calls, StageOrder)

\* a run has made every call of the pipeline and returned True
C8_AllStagesRan ==
  \E i \in DOMAIN runs :
    /\ runs[i].calls = StageOrder
    /\ runs[i].result = "True"

CalledIn(r, c) == \E k \in DOMAIN r.calls : r.calls[k] = c

\* the stage (2 to 5) whose collaborator was called and returned a failure
FailedStage(r, c) ==
  /\ CalledIn(r, c)
  /\ \/ c = "extract" /\ Falsy(r.metadata)
     \/ c = "crm" /\ r.opportunity_number = "None"
     \/ c = "folder" /\ r.folder_path = "None"
     \/ c = "move" /\ ~r.moved

\* the collaborators of the stages after stage c
Later(c) ==
  CASE c = "extract" -> {"crm", "folder", "move", "email"}
    [] c = "crm"     -> {"folder", "move", "email"}
    [] c = "folder"  -> {"move", "email"}
    [] c = "move"    -> {"email"}

\* C9: when the collaborator of one of stages 2 to 5 has returned a failure, no
\* collaborator of a later stage is called in that run and the run returns False.
C9_FailureAborts ==
  \A i \in DOMAIN runs :
    \A c \in {"extract", "crm", "folder", "move"} :
      FailedStage(runs[i], c) =>
        /\ \A d \in Later(c) : ~CalledIn(runs[i], d)
        /\ runs[i].result = "False"

\* extract_title_block returned None: the run has returned False after three calls
C9_NoMetadataAborted ==
  \E i \in DOMAIN runs :
    /\ runs[i].metadata = {"None"}
    /\ runs[i].calls = <<"backup_pdf", "backup_dwg", "extract">>
    /\ runs[i].result = "False"

\* C10: no CRM record is created from metadata that lacks customer or
\* project_manager: stage 2 has failed for such metadata.
C10_CrmNeedsCustomerAndManager ==
  \A i \in DOMAIN runs :
    CalledIn(runs[i], "crm") =>
      {"customer", "project_manager"} \subseteq runs[i].metadata

\* C11: the CRM stage is considered failed only after create_opportunity has been
\* attempted 3 times: a run whose stage 3 has failed has made 3 attempts.
C11_ThreeCrmAttemptsBeforeFailure ==
  \A i \in DOMAIN runs :
    FailedStage(runs[i], "crm") => runs[i].crm_attempts = MaxRetries

\* C12: the folder stage is considered failed only after create_folder_structure
\* has been attempted 3 times: a run whose stage 4 has failed has made 3 attempts.
C12_ThreeFolderAttemptsBeforeFailure ==
  \A i \in DOMAIN runs :
    FailedStage(runs[i], "folder") => runs[i].folder_attempts = MaxRetries

\* C13: when move_files_to_sharepoint ends without both uploads done (the token
\* included), the disk is left as it is, process_file_pair returns False and no
\* notification has been sent; and a pipeline step removes files only after both
\* uploads were done.
C13_FailedTransferKeepsFiles ==
  [][\A i \in DOMAIN runs :
       /\ (/\ runs[i].pc = "move"
           /\ runs'[i].pc # "move"
           /\ ~(runs'[i].pdf_success /\ runs'[i].dwg_success))
            => /\ disk' = disk
               /\ runs'[i].pc = "l170"
               /\ runs'[i].result = "False"
               /\ ~CalledIn(runs'[i], "email")
       /\ (runs'[i] # runs[i] /\ disk' # disk)
            => (runs[i].pdf_success /\ runs[i].dwg_success)
    ]_vars

\* the pdf was uploaded and the dwg was not: the run has failed, both files remain
C13_OneUploadFailed ==
  \E i \in DOMAIN runs :
    /\ CalledIn(runs[i], "move")
    /\ runs[i].pdf_success
    /\ ~runs[i].dwg_success
    /\ runs[i].result = "False"
    /\ {runs[i].pdf_file, runs[i].dwg_file} \subseteq disk

\* C14: when move_files_to_sharepoint returns True, neither the pdf nor the dwg is
\* on disk any more.
C14_SuccessfulTransferRemovesBoth ==
  [][\A i \in DOMAIN runs :
       (runs[i].pc = "remove" /\ runs'[i].pc = "email")
         => (runs[i].pdf_file \notin disk' /\ runs[i].dwg_file \notin disk')
    ]_vars

\* C15: a run whose notification failed still returns True, and keeps what the
\* earlier stages made: the opportunity, the folders, the transfer.
C15_NotificationFailureIgnored ==
  \A i \in DOMAIN runs :
    (CalledIn(runs[i], "email") /\ runs[i].email = "False")
      => /\ runs[i].result = "True"
         /\ runs[i].opportunity_number # "None"
         /\ runs[i].folder_path # "None"
         /\ runs[i].moved

\* the notification could not be sent and the run has returned True
C15_UnsentAndSuccessful ==
  \E i \in DOMAIN runs :
    /\ runs[i].pc = "l170"
    /\ runs[i].email = "False"
    /\ runs[i].result = "True"

\* C16: whatever the two backups return, the run goes on to extract_title_block
\* with no result yet; and a run that returns False has a failed stage among
\* stages 2 to 5.
C16_BackupFailureGoesOn ==
  [][\A i \in DOMAIN runs :
       /\ (runs[i].pc = "backup" /\ runs'[i].pc # "backup")
            => (runs'[i].pc = "extract" /\ runs'[i].result = "running")
       /\ (InProcessFilePair(i) /\ runs'[i].result = "False")
            => \E c \in {"extract", "crm", "folder", "move"} : FailedStage(runs'[i], c)
    ]_vars

\* neither backup was made and the run is about to call extract_title_block
C16_NoBackupBeforeExtract ==
  \E i \in DOMAIN runs :
    /\ runs[i].pc = "extract"
    /\ ~runs[i].pdf_backup
    /\ ~runs[i].dwg_backup
    /\ runs[i].result = "running"

\* C17: the CRM stage of a run depends on that run alone: when Odoo answers the
\* requests of a run, create_opportunity gets that run its opportunity number,
\* whatever the pipeline of another stem does meanwhile.
C17_ServedRunGetsOpportunity ==
  \A i \in DOMAIN runs : runs[i].served => runs[i].created # "None"

\* C18: the observer thread handles no event while the thread of start_watching
\* has not yet finished _scan_existing_files.
C18_NoLiveEventDuringScan ==
  call["observer"].pc # "idle" => monitor.pc \notin {"l208", "scan"}

\* C19: without the watch folder, start_watching returns False and nothing runs:
\* no observer, running False, no scan, no call of check_for_file_pair, no
\* pipeline thread.
C19_MissingRootDeclines ==
  ~monitor.root =>
    /\ monitor.pc \in {"l186", "returned"}
    /\ monitor.pc = "returned" => monitor.result = "False"
    /\ monitor.observer = "None"
    /\ ~monitor.running
    /\ todo = {}
    /\ \A t \in Callers : call[t].pc = "idle"
    /\ runs = << >>

\* start_watching has returned False for a missing watch folder
C19_DeclinedToStart ==
  /\ ~monitor.root
  /\ monitor.pc = "returned"
  /\ monitor.result = "False"

\* C20: once stop_watching has stopped the observer and returned, no thread enters
\* check_for_file_pair and no pipeline thread is started.
C20_NothingAfterStop ==
  [][(monitor.stop = "returned" /\ monitor.observer = "stopped") =>
       /\ \A t \in Callers : call[t].pc = "idle" => call'[t].pc = "idle"
       /\ Len(runs') = Len(runs)
    ]_vars

\* the observer thread takes the next event and it is one to ignore: a directory
\* event, or a file whose extension is neither dwg nor pdf
DispatchIgnored ==
  /\ queue # << >>
  /\ queue' = Tail(queue)
  /\ Head(queue).is_directory \/ ~Relevant(Head(queue).path)

\* C22: the dispatch of a directory event or of an event for a file that is
\* neither dwg nor pdf, and every step of a call for such a file, leave file_cache
\* and processing_lock as they are and start no pipeline thread; the directory
\* event does not reach check_for_file_pair, and the call for such a file ends
\* at the extension filter.
C22_OtherEventsIgnored ==
  [][/\ DispatchIgnored =>
          /\ file_cache' = file_cache
          /\ processing_lock' = processing_lock
          /\ runs' = runs
          /\ Head(queue).is_directory => call' = call
          /\ ~Head(queue).is_directory =>
               (call'["observer"].pc = "ret" /\ call'["observer"].status = "Ignored")
     /\ \A t \in Callers :
          (call[t].pc # "idle" /\ ~Relevant(call[t].file_path) /\ call'[t] # call[t])
            => /\ call[t].status = "Ignored"
               /\ call'[t] = Idle
               /\ file_cache' = file_cache
               /\ processing_lock' = processing_lock
               /\ runs' = runs
    ]_vars

\* the call for the text file has ended at the extension filter, with an empty
\* cache, no claim and no pipeline
C22_TextFileIgnored ==
  \E t \in Callers :
    /\ call[t].pc = "ret"
    /\ Ext(call[t].file_path) = "txt"
    /\ call[t].status = "Ignored"
    /\ file_cache = << >>
    /\ processing_lock = {}
    /\ runs = << >>

\* a run of stem s is in progress: started, and not yet through line 170
Running(s) == \E i \in RunsOf(s) : runs[i].pc \in StagePcs \cup {"l170"}

\* C23: a pipeline thread is started for a stem after a run of that stem has
\* failed and given up the claim only by a call that began after that run was
\* started, and so found the stem unclaimed after the failed run had ended.
C23_NoRunFromOldEvent ==
  [][\A t \in Callers :
       (call[t].pc = "l139" /\ call'[t] # call[t] /\ Len(runs') > Len(runs))
         => \A j \in RunsOf(FileStem(t)) :
              (runs[j].result = "False" /\ runs[j].pc \in {"l171", "l172", "done"})
                => j <= call[t].start
    ]_vars

\* thread i is between line 170 and the end of _process_pair_async
InCleanup(i) == runs[i].pc \in {"l171", "l172"}

\* C25: during the cleanup of a run no state has the stem out of processing_lock
\* while the stem's entry is still in file_cache.
C25_EntryGoesBeforeClaim ==
  \A i \in DOMAIN runs :
    InCleanup(i)
      => (runs[i].stem \in processing_lock \/ runs[i].stem \notin DOMAIN file_cache)

\* the call of thread t has recorded its file at line 128 and the entry still
\* holds it
Sighted(t) ==
  /\ call[t].pc \in {"l131", "l132", "l135", "l136", "l139", "ret"}
  /\ call[t].status \in {"None", "Partial", "Stale", "Completed"}
  /\ Recorded(FileStem(t), FileExt(t))
  /\ file_cache[FileStem(t)][FileExt(t)] = call[t].file_path

\* C26: line 172 of a run never deletes what a call recorded that began after the
\* run was started and found the stem unclaimed: an event that was not dropped at
\* line 121 keeps its place in file_cache through the cleanup.
C26_CleanupKeepsNewSighting ==
  [][\A i \in DOMAIN runs :
       (runs[i].pc = "l172" /\ runs'[i].pc = "done")
         => \A t \in Callers :
              ~(FileStem(t) = runs[i].stem /\ call[t].start >= i /\ Sighted(t))
    ]_vars

\* C27: a call never writes the entry of a stem that is in processing_lock: lines
\* 126 and 128 leave file_cache alone while the stem is claimed.
C27_ClaimedEntryNotWritten ==
  [][\A t \in Callers :
       (/\ call[t].pc \in {"l126", "l128"}
        /\ call'[t] # call[t]
        /\ FileStem(t) \in processing_lock)
         => file_cache' = file_cache
    ]_vars

\* the threads that have read file_cache or processing_lock and have a read or a
\* write of them still to do: a call between line 121 and its last access, a
\* pipeline thread between line 170 and line 172
Inside ==
  { t \in Callers : call[t].pc \in {"l125", "l126", "l128", "l131", "l132", "l135",
                                      "l136", "l151"} }
    \cup { i \in DOMAIN runs : InCleanup(i) }

\* C28: at no time are two threads between their first read and their last write
\* of file_cache / processing_lock.
C28_OneThreadInside == Cardinality(Inside) <= 1

\* the call of thread t holds the claim it added at line 132 and has not yet
\* started the pipeline thread or given the claim up
Claiming(t, s) ==
  FileStem(t) = s /\ call[t].pc \in {"l135", "l136", "l139", "l151"}

\* C29: every stem in processing_lock has a pipeline thread in progress, or a
\* call that has just claimed it and is about to start that thread.
C29_ClaimHasPipeline ==
  \A s \in processing_lock :
    Running(s) \/ \E t \in Callers : Claiming(t, s)

\* both a dwg and a pdf of stem s are on disk
PairOnDisk(s) ==
  \E d \in disk, p \in disk :
    Stem(d) = s /\ Ext(d) = "dwg" /\ Stem(p) = s /\ Ext(p) = "pdf"

\* a run of stem s that was started before the call of t began has failed, and
\* every run of s has ended, its cleanup included
FailedAndCleared(t, s) ==
  /\ \E j \in RunsOf(s) : j <= call[t].start /\ runs[j].result = "False"
  /\ \A j \in RunsOf(s) : runs[j].pc = "done"

\* C31: with both files of a stem on disk, a call for one of them that found the
\* stem unclaimed after a failed run of the stem has ended, and that met no
\* exception, starts a pipeline.
C31_OneEventRetriggers ==
  \A t \in Callers :
    ( /\ PastGate(t)
      /\ call[t].status # "Error"
      /\ FailedAndCleared(t, FileStem(t))
      /\ PairOnDisk(FileStem(t)) )
      => call[t].status = "Completed"

\* C33: when create_folder_structure has returned a folder path, the subfolders
\* PDF and DWG are provisioned beneath it: move_files_to_sharepoint is called
\* only with both in place.
C33_SubfoldersProvisioned ==
  \A i \in DOMAIN runs :
    runs[i].pc = "move" => {"PDF", "DWG"} \subseteq runs[i].subfolders

\* C34: once stop_watching has returned, start_watching is not left in its
\* keep-alive loop with running True, nor with the observer alive.
C34_StoppedAfterStop ==
  (monitor.stop = "returned" /\ monitor.pc = "loop")
    => (~monitor.running /\ monitor.observer # "alive")

\* C35: every exception inside check_for_file_pair ends the call with a return:
\* a call in progress always has a next step, the KeyError of lines 135-136 goes
\* to the except branch of line 149, and that branch returns with the stem out
\* of processing_lock.
C35_ErrorsCaughtClaimReleased ==
  [][\A t \in Callers :
       /\ (call[t].pc \in {"l135", "l136"} /\ call'[t] # call[t])
            => call'[t].pc \in {"l136", "l139", "l151"}
       /\ (call[t].pc = "l151" /\ call'[t] # call[t])
            => /\ call'[t].pc = "ret"
               /\ call'[t].status = "Error"
               /\ FileStem(t) \notin processing_lock'
       /\ (call[t].pc = "ret" /\ call'[t] # call[t]) => call'[t] = Idle
       /\ (call[t].pc \notin {"idle", "l139"}) => ENABLED CheckForFilePair(t)
    ]_vars

\* a call has ended in the except branch of line 149, after it had claimed the
\* stem, and the stem is unclaimed
C35_FailedAfterClaim ==
  \E t \in Callers :
    /\ call[t].pc = "ret"
    /\ call[t].status = "Error"
    /\ HasBoth(call[t].seen)
    /\ FileStem(t) \notin processing_lock

\* C37: every path in file_cache is recorded under the lower-case base name of
\* the file and under its lower-case extension, whatever its directory; and the
\* pipeline thread gets the two paths the call read from the stem's entry, a dwg
\* and a pdf of that stem.
C37_KeyedByStemAlone ==
  [][/\ \A s \in DOMAIN file_cache' : \A x \in DOMAIN file_cache'[s] :
          /\ Lower(file_cache'[s][x].name) = s
          /\ LStripDot(Lower(file_cache'[s][x].suffix)) = x
     /\ \A t \in Callers :
          (call[t].pc = "l139" /\ call'[t] # call[t] /\ Len(runs') > Len(runs))
            => LET r == runs'[Len(runs')]
               IN  /\ r.dwg_file = call[t].dwg_file
                   /\ r.pdf_file = call[t].pdf_file
                   /\ Lower(r.dwg_file.name) = r.stem
                   /\ Lower(r.pdf_file.name) = r.stem
                   /\ Lower(r.dwg_file.suffix) = ".dwg"
                   /\ Lower(r.pdf_file.suffix) = ".pdf"
    ]_vars

\* a pipeline thread has been started for a dwg and a pdf that lie in different
\* directories and whose names differ in letter case
C37_PairAcrossDirectories ==
  \E i \in DOMAIN runs :
    /\ runs[i].pc = "backup"
    /\ runs[i].dwg_file.dir # runs[i].pdf_file.dir
    /\ runs[i].dwg_file.name # runs[i].pdf_file.name

\* C38: the steps of a call that write file_cache (lines 126 and 128) leave the
\* entries of the other stems and the path of the stem's other extension as they
\* are, and line 128 records the path of the call under its extension.
C38_UpsertTouchesOneExtension ==
  [][\A t \in Callers :
       (call[t].pc \in {"l126", "l128"} /\ call'[t] # call[t])
         => /\ \A s \in DOMAIN file_cache \ {FileStem(t)} :
                 s \in DOMAIN file_cache' /\ file_cache'[s] = file_cache[s]
            /\ FileStem(t) \in DOMAIN file_cache =>
                 \A x \in DOMAIN file_cache[FileStem(t)] \ {FileExt(t)} :
                   /\ Recorded(FileStem(t), x)'
                   /\ file_cache'[FileStem(t)][x] = file_cache[FileStem(t)][x]
            /\ (call[t].pc = "l128" /\ call'[t].pc = "l131") =>
                 file_cache'[FileStem(t)][FileExt(t)] = call[t].file_path
    ]_vars

\* -------------------------------------------- the drop scenario
\* the drawing and the document of stem s in the watch folder
PairOf(s) == { [dir |-> "in", name |-> s, suffix |-> x] : x \in {".dwg", ".pdf"} }

\* the earlier pipelines of stem s have ended and nothing of s is pending
Settled(s) ==
  /\ Handled(s)
  /\ \A i \in RunsOf(s) : runs[i].pc = "done"

\* both files of stem s are created or saved again; watchdog queues the two
\* events in either order
DropPair(s) ==
  /\ drops[s] < MaxDrops
  /\ Settled(s)
  /\ disk' = disk \cup PairOf(s)
  /\ \E p \in PairOf(s) : \E q \in PairOf(s) \ {p} :
       queue' = queue \o <<Event(p), Event(q)>>
  /\ drops' = [drops EXCEPT ![s] = @ + 1]
  /\ UNCHANGED <<apart, todo, nenv, file_cache, processing_lock, call, runs, driver, monitor>>

\* start_watching on an empty watch folder: the scan has found nothing
InitDrop ==
  /\ disk = {}
  /\ todo = {}
  /\ queue = << >>
  /\ nenv = 0
  /\ drops = [s \in Stems |-> 0]
  /\ driver = 0
  /\ monitor = [NewMonitor(TRUE) EXCEPT !.pc = "loop", !.observer = "alive",
                                        !.running = TRUE]
  /\ wrapper = NoWrapper
  /\ request = NoRequest
  /\ HandlerInit

\* the observer thread handles the events one after the other; lines 149-151 are
\* not reached, as no pipeline of the stem runs while its events are handled
ObserverCall ==
  \/ L121("observer") \/ L125("observer") \/ L126("observer") \/ L128("observer")
  \/ L131("observer") \/ L132("observer") \/ L135("observer") \/ L136("observer")
  \/ L139("observer") \/ Return("observer")

\* C24: the observer thread never waits for a pipeline thread: whatever the
\* pipeline threads are doing, a call of check_for_file_pair in progress can take
\* its next step (the return after line 147 included), and a queued event can be
\* dispatched once the call before it has returned.
C24_HandlerNeverWaits ==
  /\ (call["observer"].pc # "idle" /\ Len(runs) < MaxRuns) => ENABLED ObserverCall
  /\ (call["observer"].pc = "ret") => ENABLED Return("observer")
  /\ (call["observer"].pc = "idle" /\ queue # << >>) => ENABLED Dispatch

\* the pipeline thread of a second stem was started, and the call that started it
\* has returned, while the first pipeline is still inside process_file_pair
C24_SecondStartedWhileFirstBlocked ==
  \E i, j \in DOMAIN runs :
    /\ i < j
    /\ runs[i].stem # runs[j].stem
    /\ InProcessFilePair(i)
    /\ runs[j].pc = "backup"
    /\ call["observer"].pc = "idle"

NextDrop ==
  \/ \E s \in DropStems : DropPair(s)
  \/ Dispatch
  \/ ObserverCall
  \/ \E i \in DOMAIN runs : ProcessPairAsync(i)

SpecDrop == InitDrop /\ [][NextDrop]_vars

\* ------------------- the drop scenario, up to the end of the process
\* C21: when the process has ended after stop_watching, every pipeline thread
\* that had been started when stop_watching was called has run all its stages
\* and its cleanup.
C21_InFlightRunsFinish ==
  ~Alive => \A i \in 1..monitor.at_stop : runs[i].pc = "done"

\* pairs are dropped and handled as in the drop scenario, and at any moment the
\* main thread is told to shut down: it calls stop_watching and exits
NextExit ==
  \/ Alive /\ \E s \in DropStems : DropPair(s)
  \/ Alive /\ Dispatch
  \/ Alive /\ ObserverCall
  \/ Alive /\ \E i \in DOMAIN runs : ProcessPairAsync(i)
  \/ Alive /\ StopWatching
  \/ Alive /\ Joined
  \/ Alive /\ LoopExit
  \/ Exit

SpecExit == InitDrop /\ [][NextExit]_vars

\* ------------------- the drop scenario with the copies of stage 1
\* the pairs dropped so far
Dropped ==
  Cardinality({ d \in DropStems \X (1..MaxDrops) : d[2] <= drops[d[1]] })

\* C30: the pipeline threads started are never more than the pairs dropped: what
\* a run writes into the watch folder starts no run.
C30_NoRunFromOwnBackups == Len(runs) <= Dropped

\* the pairs of one stem are dropped, and the copies of stage 1 are followed
NextBackup ==
  \/ DropPair("job17")
  \/ Dispatch
  \/ ObserverCall
  \/ \E i \in DOMAIN runs :
       BackupInTree(i) \/ AfterStage1(i) \/ L170(i) \/ L171(i) \/ L172(i)

SpecBackup == InitDrop /\ [][NextBackup]_vars

Next ==
  \/ StartWatching
  \/ StartScan
  \/ \E p \in Paths : Arrive(p)
  \/ \E p \in Paths : DeleteFile(p)
  \/ MakeDir
  \/ Dispatch
  \/ ScanNext
  \/ \E t \in Callers : CheckForFilePair(t)
  \/ \E i \in DOMAIN runs : ProcessPairAsync(i)

Spec == Init /\ [][Next]_vars

\* the shutdown scenario: another thread calls stop_watching once, at any moment
\* of the start, the scan and the handling of events; the pipeline threads that
\* were started are not followed
NextStop ==
  \/ StartWatching
  \/ StartScan
  \/ \E p \in Paths : Arrive(p)
  \/ \E p \in Paths : DeleteFile(p)
  \/ MakeDir
  \/ Dispatch
  \/ ScanNext
  \/ \E t \in Callers : CheckForFilePair(t)
  \/ StopWatching
  \/ Joined
  \/ LoopExit

SpecStop == Init /\ [][NextStop]_vars

\* ------------------------------------------------------ retry_on_failure
\* the variables of the monitor and its pipeline threads
monitored == <<disk, todo, queue, nenv, drops, file_cache, processing_lock, call,
               runs, driver, monitor>>

\* nothing of the monitor has run
Quiet ==
  /\ disk = {}
  /\ todo = {}
  /\ queue = << >>
  /\ nenv = 0
  /\ drops = [s \in Stems |-> 0]
  /\ driver = 0
  /\ monitor = NewMonitor(TRUE)
  /\ HandlerInit

\* the values of max_retries that are followed: 1 to MaxAttempts
MaxAttempts == 4

\* the values of delay that are followed, in seconds
Delays == {1, 2}

\* the classes of Exception the wrapped function raises
Exceptions == {"ValueError", "TimeoutError"}

\* what a call of the wrapped function does: it returns a value, returns None,
\* raises an Exception, or raises what "except Exception" does not catch
Outcomes == {"value", "None", "KeyboardInterrupt"} \cup Exceptions

\* how the wrapper ended
Returns(value) == [kind |-> "return", what |-> value]
Raises(e) == [kind |-> "raise", what |-> e]

\* the wrapper called (utils.py lines 85-86) of a function decorated with
\* max_retries and delay.  Beside attempt and e, the locals of the code: log, the
\* calls of the function and of time.sleep in the order they were made
NewWrapper(max_retries, delay) ==
  [pc |-> "l88", max_retries |-> max_retries, delay |-> delay, attempt |-> -1,
   e |-> "None", log |-> << >>, result |-> [kind |-> "None", what |-> "None"]]

FuncCall(outcome) == [kind |-> "call", outcome |-> outcome, secs |-> 0]
SleepCall(secs) == [kind |-> "sleep", outcome |-> "None", secs |-> secs]

\* line 88: for attempt in range(max_retries); past the last value the loop ends
\* and the wrapper returns None at its end
WrapperFor ==
  /\ wrapper.pc = "l88"
  /\ wrapper' = IF wrapper.attempt + 1 < wrapper.max_retries
                THEN [wrapper EXCEPT !.attempt = @ + 1, !.pc = "l90"]
                ELSE [wrapper EXCEPT !.pc = "done", !.result = Returns("None")]
  /\ UNCHANGED <<request, monitored>>

\* lines 89-91: return func(*args, **kwargs), an Exception is caught, anything
\* else goes to the caller
WrapperTry ==
  /\ wrapper.pc = "l90"
  /\ \E outcome \in Outcomes :
       LET called == [wrapper EXCEPT !.log = Append(@, FuncCall(outcome))]
       IN  wrapper' =
             IF outcome \in Exceptions
             THEN [called EXCEPT !.e = outcome, !.pc = "l92"]
             ELSE IF outcome = "KeyboardInterrupt"
             THEN [called EXCEPT !.pc = "done", !.result = Raises(outcome)]
             ELSE [called EXCEPT !.pc = "done", !.result = Returns(outcome)]
  /\ UNCHANGED <<request, monitored>>

\* a test that takes the last attempt for one more to retry
RetryingPastLast(attempt, max_retries) == attempt < max_retries

\* line 92: if attempt < max_retries - 1
Retrying(attempt, max_retries) == attempt < max_retries - 1

\* lines 92-97: before the last attempt go on to sleep, at the last one raise
WrapperExcept ==
  /\ wrapper.pc = "l92"
  /\ wrapper' = IF Retrying(wrapper.attempt, wrapper.max_retries)
                THEN [wrapper EXCEPT !.pc = "l94"]
                ELSE [wrapper EXCEPT !.pc = "done", !.result = Raises(wrapper.e)]
  /\ UNCHANGED <<request, monitored>>

\* line 94: time.sleep(delay), then the next turn of the loop
WrapperSleep ==
  /\ wrapper.pc = "l94"
  /\ wrapper' = [wrapper EXCEPT !.log = Append(@, SleepCall(wrapper.delay)),
                                !.pc = "l88"]
  /\ UNCHANGED <<request, monitored>>

\* a decorated function is called once, with any max_retries and delay
InitRetry ==
  /\ Quiet
  /\ wrapper \in { NewWrapper(max_retries, delay) :
                     max_retries \in 1..MaxAttempts, delay \in Delays }
  /\ request = NoRequest

NextRetry ==
  \/ WrapperFor
  \/ WrapperTry
  \/ WrapperExcept
  \/ WrapperSleep

SpecRetry == InitRetry /\ [][NextRetry]_vars

\* the places of the log where the function was called
FuncCalls == { k \in DOMAIN wrapper.log : wrapper.log[k].kind = "call" }

\* C32: the wrapper of retry_on_failure(max_retries, delay) calls the function at
\* most max_retries times; a call that returns, whatever it returns, is the last one
\* and its value is the wrapper's result; a sleep lasts delay, comes between two
\* calls, one sleep between any two, and none after the last attempt; when all
\* max_retries calls raised, the wrapper raises the exception of the last one.
C32_RetryOnFailure ==
  wrapper.pc # "idle" =>
    /\ Cardinality(FuncCalls) <= wrapper.max_retries
    /\ \A k \in DOMAIN wrapper.log :
         /\ (k \in FuncCalls /\ wrapper.log[k].outcome \in {"value", "None"}) =>
              /\ k = Len(wrapper.log)
              /\ wrapper.pc = "done"
              /\ wrapper.result = Returns(wrapper.log[k].outcome)
         /\ (k \in FuncCalls /\ k > 1) => wrapper.log[k - 1].kind = "sleep"
         /\ k \notin FuncCalls =>
              /\ wrapper.log[k].secs = wrapper.delay
              /\ k > 1 /\ wrapper.log[k - 1].kind = "call"
              /\ Cardinality({ j \in FuncCalls : j < k }) < wrapper.max_retries
              /\ IF k < Len(wrapper.log) THEN wrapper.log[k + 1].kind = "call"
                                         ELSE wrapper.pc \in {"l88", "l90"}
    /\ wrapper.pc = "done" =>
         /\ Len(wrapper.log) > 0
         /\ wrapper.log[Len(wrapper.log)].kind = "call"
         /\ ( /\ Cardinality(FuncCalls) = wrapper.max_retries
              /\ \A k \in FuncCalls : wrapper.log[k].outcome \in Exceptions )
              => wrapper.result = Raises(wrapper.log[Len(wrapper.log)].outcome)

\* three attempts that all raised, the last one another exception than the first
C32_AllAttemptsRaised ==
  /\ wrapper.pc = "done"
  /\ wrapper.max_retries = 3
  /\ Len(wrapper.log) = 5
  /\ wrapper.log[1].outcome = "ValueError"
  /\ wrapper.log[5].outcome = "TimeoutError"
  /\ wrapper.result = Raises("TimeoutError")

\* ------------------------------------------------------ send_seizmic_data_request
\* config.py lines 19-23
pm_emails ==
  ("Aaron Cendejas" :> "aaron@intralog.io") @@ ("Mark Westover" :> "mark@intralog.io")
    @@ ("Indigo Allen" :> "indigo@intralog.io")

\* config.py lines 25-29
drafter_emails ==
  ("Vanya Andonova" :> "vanya@intralog.io") @@ ("Aaron Cendejas" :> "aaron@intralog.io")
    @@ ("Michael Schulte" :> "michael@intralog.io")

\* config.py lines 164-166: self.pm_emails.get(name)
get_pm_email(name) == IF name \in DOMAIN pm_emails THEN pm_emails[name] ELSE "None"

\* config.py lines 168-170: self.drafter_emails.get(name)
get_drafter_email(name) ==
  IF name \in DOMAIN drafter_emails THEN drafter_emails[name] ELSE "None"

\* the names the title block may give: those of the two tables, one that is in
\* neither, and "" for a field that is missing (the default of metadata.get)
Names == DOMAIN pm_emails \cup DOMAIN drafter_emails \cup {"Somebody Else", ""}

\* nothing was handed to the SMTP server
NoMessage == [sent |-> FALSE, To |-> << >>, Cc |-> << >>, all_recipients |-> << >>]

\* send_seizmic_data_request called with the names of the metadata (lines 49-50)
NewRequest(pm_name, drafter_name) ==
  [pc |-> "l52", pm_name |-> pm_name, drafter_name |-> drafter_name,
   pm_email |-> "None", drafter_email |-> "None", to_emails |-> << >>,
   cc_emails |-> << >>, message |-> NoMessage, result |-> "None"]

\* lines 52-53: the two addresses are looked up
RequestResolve ==
  /\ request.pc = "l52"
  /\ request' = [request EXCEPT !.pm_email = get_pm_email(request.pm_name),
                                !.drafter_email = get_drafter_email(request.drafter_name),
                                !.pc = "l55"]
  /\ UNCHANGED <<wrapper, monitored>>

\* a copy to the drafter whenever the drafter has an address
CcWheneverFound(drafter_email, pm_email) ==
  IF drafter_email # "None" THEN <<drafter_email>> ELSE << >>

\* line 66: [drafter_email] if drafter_email and drafter_email != pm_email else []
CcEmails(drafter_email, pm_email) ==
  IF drafter_email # "None" /\ drafter_email # pm_email THEN <<drafter_email>>
  ELSE << >>

\* lines 55-66: without an address of the project manager return False, else set
\* the recipients
RequestRecipients ==
  /\ request.pc = "l55"
  /\ request' =
       IF request.pm_email = "None"
       THEN [request EXCEPT !.pc = "done", !.result = "False"]
       ELSE [request EXCEPT !.to_emails = <<request.pm_email>>,
                            !.cc_emails = CcEmails(request.drafter_email,
                                                   request.pm_email),
                            !.pc = "l69"]
  /\ UNCHANGED <<wrapper, monitored>>

\* what _send_email meets (lines 153-197): no SMTP connection, a sendmail that
\* raises, a sendmail that succeeds, and one after which server.quit() raises
SmtpCases == {"no_server", "sendmail_raises", "sent", "quit_raises"}

\* line 69 and _send_email: the headers To and Cc, and all_recipients = to_emails
\* followed by cc_emails, go to sendmail; True only if nothing failed, every
\* exception is caught and gives False
RequestSend ==
  /\ request.pc = "l69"
  /\ \E smtp \in SmtpCases :
       request' =
         [request EXCEPT
            !.message = IF smtp \in {"sent", "quit_raises"}
                        THEN [sent |-> TRUE, To |-> request.to_emails,
                              Cc |-> request.cc_emails,
                              all_recipients |-> request.to_emails \o request.cc_emails]
                        ELSE NoMessage,
            !.result = IF smtp = "sent" THEN "True" ELSE "False",
            !.pc = "done"]
  /\ UNCHANGED <<wrapper, monitored>>

\* send_seizmic_data_request is called once, with any two names
InitEmail ==
  /\ Quiet
  /\ wrapper = NoWrapper
  /\ request \in { NewRequest(pm_name, drafter_name) :
                     pm_name \in Names, drafter_name \in Names }

NextEmail ==
  \/ RequestResolve
  \/ RequestRecipients
  \/ RequestSend

SpecEmail == InitEmail /\ [][NextEmail]_vars

\* C36: a message that is sent goes to the address of the project manager, with
\* the address of the drafter as copy exactly when the drafter has one and it is
\* not the project manager's; without an address of the project manager nothing is
\* sent and the request returns False.
C36_Recipients ==
  request.pc = "done" =>
    /\ request.message.sent =>
         /\ request.pm_name \in DOMAIN pm_emails
         /\ request.message.To = <<pm_emails[request.pm_name]>>
         /\ request.message.Cc =
              ( IF /\ request.drafter_name \in DOMAIN drafter_emails
                   /\ drafter_emails[request.drafter_name] # pm_emails[request.pm_name]
                THEN <<drafter_emails[request.drafter_name]>>
                ELSE << >> )
         /\ request.message.all_recipients = request.message.To \o request.message.Cc
    /\ request.pm_name \notin DOMAIN pm_emails =>
         /\ ~request.message.sent
         /\ request.result = "False"

\* the project manager is the drafter as well: one recipient and no copy
C36_SamePersonNotCopied ==
  /\ request.pc = "done"
  /\ request.pm_name = "Aaron Cendejas"
  /\ request.drafter_name = "Aaron Cendejas"
  /\ request.message.sent
  /\ request.message.all_recipients = <<"aaron@intralog.io">>
  /\ request.result = "True"

====
